---- MODULE Spec2Model ----
(***************************************************************************)
(* Model of radiation_unit_conversion/units.py: the generic dimensional    *)
(* converters and the fixed-constant converters, as pure functions on      *)
(* astropy-style quantities (a magnitude bound to a unit).                 *)
(*                                                                         *)
(* Magnitudes are exact positive rationals n/d * 10^e whose numerator and  *)
(* denominator are multi-limb naturals, so that constants such as          *)
(* 2.99792458e21 and their products are represented without loss.  The    *)
(* rounding of IEEE doubles (about 1e-16 relative) is far below the 1e-9   *)
(* tolerance of the properties and is not modelled.                        *)
(***************************************************************************)
EXTENDS Integers, Sequences, FiniteSets, TLC

\* ------------------------------------------------------------------------
\* Multi-limb naturals: little-endian sequences of limbs in base 10^4,
\* without leading (most significant) zero limbs; <<>> is zero.
\* ------------------------------------------------------------------------
LimbBase == 10000

RECURSIVE BigNorm(_)
BigNorm(a) ==
    IF a = <<>> THEN <<>>
    ELSE IF a[Len(a)] = 0 THEN BigNorm(SubSeq(a, 1, Len(a) - 1))
    ELSE a

RECURSIVE BigAddC(_, _, _)
BigAddC(a, b, carry) ==
    IF a = <<>> /\ b = <<>> THEN (IF carry = 0 THEN <<>> ELSE <<carry>>)
    ELSE LET x == IF a = <<>> THEN 0 ELSE Head(a)
             y == IF b = <<>> THEN 0 ELSE Head(b)
             s == x + y + carry
             ra == IF a = <<>> THEN <<>> ELSE Tail(a)
             rb == IF b = <<>> THEN <<>> ELSE Tail(b)
         IN  <<s % LimbBase>> \o BigAddC(ra, rb, s \div LimbBase)

BigAdd(a, b) == BigAddC(a, b, 0)

RECURSIVE BigMulLimb(_, _, _)
BigMulLimb(a, m, carry) ==
    IF a = <<>> THEN (IF carry = 0 THEN <<>> ELSE <<carry>>)
    ELSE LET p == Head(a) * m + carry
         IN  <<p % LimbBase>> \o BigMulLimb(Tail(a), m, p \div LimbBase)

RECURSIVE BigMul(_, _)
BigMul(a, b) ==
    IF a = <<>> \/ b = <<>> THEN <<>>
    ELSE BigNorm(BigAdd(BigMulLimb(a, Head(b), 0),
                        IF Tail(b) = <<>> THEN <<>>
                        ELSE <<0>> \o BigMul(a, Tail(b))))

RECURSIVE BigLessFrom(_, _, _)
BigLessFrom(a, b, i) ==
    IF i = 0 THEN FALSE
    ELSE IF a[i] # b[i] THEN a[i] < b[i]
    ELSE BigLessFrom(a, b, i - 1)

BigLess(a, b) ==
    IF Len(a) # Len(b) THEN Len(a) < Len(b) ELSE BigLessFrom(a, b, Len(a))

RECURSIVE BigOfNat(_)
BigOfNat(k) ==
    IF k = 0 THEN <<>> ELSE <<k % LimbBase>> \o BigOfNat(k \div LimbBase)

RECURSIVE BigPow10(_)
BigPow10(k) ==
    IF k = 0 THEN <<1>>
    ELSE IF k >= 4 THEN <<0>> \o BigPow10(k - 4)
    ELSE BigMulLimb(BigPow10(k - 1), 10, 0)

\* ------------------------------------------------------------------------
\* Magnitudes: the positive rational n/d * 10^e.
\* ------------------------------------------------------------------------
Mag(k, e10) == [n |-> BigOfNat(k), d |-> <<1>>, e |-> e10]

MagMul(a, b) == [n |-> BigMul(a.n, b.n), d |-> BigMul(a.d, b.d), e |-> a.e + b.e]

MagDiv(a, b) == [n |-> BigMul(a.n, b.d), d |-> BigMul(a.d, b.n), e |-> a.e - b.e]

MagSq(a) == MagMul(a, a)

\* a and b brought to the common denominator a.d * b.d and the common
\* power of ten min(a.e, b.e): the two numerators.
MagLeft(a, b) ==
    BigMul(BigMul(a.n, b.d), BigPow10(IF a.e > b.e THEN a.e - b.e ELSE 0))

MagEq(a, b) == MagLeft(a, b) = MagLeft(b, a)

\* |a - b| < 1e-9 * |b|
MagClose(a, b) ==
    LET l == BigMul(MagLeft(a, b), BigPow10(9))
        r == MagLeft(b, a)
    IN  /\ BigLess(l, BigMul(r, BigAdd(BigPow10(9), <<1>>)))
        /\ BigLess(BigMul(r, BigOfNat(999999999)), l)

\* ------------------------------------------------------------------------
\* Units (astropy.units): a vector of base-unit exponents, the rational
\* scale k to the SI base units and the power of pi in that scale.
\* ------------------------------------------------------------------------
Base == {"m", "kg", "s", "rad", "ph"}

One == Mag(1, 0)

BaseUnit(b) == [dim |-> [x \in Base |-> IF x = b THEN 1 ELSE 0], k |-> One, pi |-> 0]

dimensionless_unscaled == [dim |-> [x \in Base |-> 0], k |-> One, pi |-> 0]

UnitMul(a, b) ==
    [dim |-> [x \in Base |-> a.dim[x] + b.dim[x]], k |-> MagMul(a.k, b.k), pi |-> a.pi + b.pi]

UnitDiv(a, b) ==
    [dim |-> [x \in Base |-> a.dim[x] - b.dim[x]], k |-> MagDiv(a.k, b.k), pi |-> a.pi - b.pi]

UnitSq(a) == UnitMul(a, a)

\* k * a, with pi^p in the factor
Scaled(k, p, a) == [dim |-> a.dim, k |-> MagMul(k, a.k), pi |-> a.pi + p]

\* Unit.is_equivalent without equivalencies: the same base-unit exponents.
Commensurate(a, b) == a.dim = b.dim

\* Unit.__eq__: commensurate with a scale ratio of one.
UnitEq(a, b) == Commensurate(a, b) /\ a.pi = b.pi /\ MagEq(a.k, b.k)

u_m == BaseUnit("m")
u_second == BaseUnit("s")
u_kg == BaseUnit("kg")
u_rad == BaseUnit("rad")
u_ph == BaseUnit("ph")
u_Hz == UnitDiv(dimensionless_unscaled, u_second)
u_J == UnitDiv(UnitMul(u_kg, UnitSq(u_m)), UnitSq(u_second))
u_W == UnitDiv(u_J, u_second)
u_erg == Scaled(Mag(1, -7), 0, u_J)
u_cm == Scaled(Mag(1, -2), 0, u_m)
u_micron == Scaled(Mag(1, -6), 0, u_m)
u_nm == Scaled(Mag(1, -9), 0, u_m)
u_AA == Scaled(Mag(1, -10), 0, u_m)
u_sr == UnitSq(u_rad)
u_deg == Scaled(MagDiv(One, Mag(180, 0)), 1, u_rad)
u_arcsec == Scaled(MagDiv(One, Mag(648000, 0)), 1, u_rad)

W_m2 == UnitDiv(u_W, UnitSq(u_m))
W_m2_Hz == UnitDiv(UnitDiv(u_W, UnitSq(u_m)), u_Hz)
W_m2_micron == UnitDiv(UnitDiv(u_W, UnitSq(u_m)), u_micron)
micron_second == UnitDiv(u_micron, u_second)
erg_cm2_s == UnitDiv(UnitDiv(u_erg, UnitSq(u_cm)), u_second)
erg_cm2_Hz == UnitDiv(UnitDiv(u_erg, UnitSq(u_cm)), u_Hz)
erg_cm2_s_Hz == UnitDiv(erg_cm2_s, u_Hz)
erg_cm2_s_AA == UnitDiv(erg_cm2_s, u_AA)
ph_cm2_s == UnitDiv(UnitDiv(u_ph, UnitSq(u_cm)), u_second)
ph_cm2_s_micron == UnitDiv(ph_cm2_s, u_micron)
ph_cm2_s_AA == UnitDiv(ph_cm2_s, u_AA)
ph_cm2_s_AA_sr == UnitDiv(ph_cm2_s_AA, u_sr)
ph_cm2_s_AA_deg2 == UnitDiv(ph_cm2_s_AA, UnitSq(u_deg))
ph_cm2_s_AA_arcsec2 == UnitDiv(ph_cm2_s_AA, UnitSq(u_arcsec))
u_Jy == Scaled(Mag(1, -26), 0, W_m2_Hz)
\* 1 R = 1e10/(4 pi) ph m^-2 s^-1 sr^-1
u_R == Scaled(MagDiv(Mag(1, 10), Mag(4, 0)), -1,
              UnitDiv(UnitDiv(UnitDiv(u_ph, UnitSq(u_m)), u_second), u_sr))

\* ------------------------------------------------------------------------
\* Quantities (astropy.units.Quantity): [v |-> magnitude, u |-> unit].
\* ------------------------------------------------------------------------
UnitConversionError == [raised |-> "UnitConversionError"]

\* No value: an argument a converter does not take, a call not made yet.
NoValue == [none |-> TRUE]

Quantity(value, unit) == [v |-> value, u |-> unit]

\* Quantity.to(unit): raises unless the units are commensurate.  (Every
\* conversion the converters make is between units with the same power
\* of pi, so the factor is rational.)
To(q, unit) ==
    IF ~Commensurate(q.u, unit) THEN UnitConversionError
    ELSE Quantity(MagDiv(MagMul(q.v, q.u.k), unit.k), unit)

\* number * Quantity, Quantity * number
NumMul(c, q) == Quantity(MagMul(c, q.v), q.u)

\* Quantity / number
DivNum(q, c) == Quantity(MagDiv(q.v, c), q.u)

\* number / Quantity
NumDiv(c, q) == Quantity(MagDiv(c, q.v), UnitDiv(dimensionless_unscaled, q.u))

\* Quantity * Quantity, Quantity / Quantity, Quantity ** 2
QMul(a, b) == Quantity(MagMul(a.v, b.v), UnitMul(a.u, b.u))

QDiv(a, b) == Quantity(MagDiv(a.v, b.v), UnitDiv(a.u, b.u))

QSq(a) == QMul(a, a)

\* astropy.constants.c
cst_c == Quantity(Mag(299792458, 0), UnitDiv(u_m, u_second))

\* ------------------------------------------------------------------------
\* The generic dimensional converters.
\* ------------------------------------------------------------------------
\* fnu2flambda taking the wavelength's magnitude as it comes, without
\* converting it to micron.
fnu2flambda_unconverted_wavelength(input_flux, input_wavelength, output_units) ==
    LET input_converted == To(input_flux, W_m2_Hz)
        constant == To(cst_c, micron_second)
    IN  IF input_converted = UnitConversionError THEN UnitConversionError
        ELSE To(Quantity(MagDiv(MagMul(constant.v, input_converted.v),
                                MagSq(input_wavelength.v)),
                         W_m2_micron),
                output_units)

\* fnu2flambda computing f_nu * lambda^2 / c.
fnu2flambda_lambda2_over_c(input_flux, input_wavelength, output_units) ==
    LET input_converted == To(input_flux, W_m2_Hz)
        wlen_converted == To(input_wavelength, u_micron)
        constant == To(cst_c, micron_second)
    IN  IF input_converted = UnitConversionError THEN UnitConversionError
        ELSE IF wlen_converted = UnitConversionError THEN UnitConversionError
        ELSE To(Quantity(MagDiv(MagMul(input_converted.v, MagSq(wlen_converted.v)),
                                constant.v),
                         W_m2_micron),
                output_units)

fnu2flambda(input_flux, input_wavelength, output_units) ==
    LET input_converted == To(input_flux, W_m2_Hz)
        wlen_converted == To(input_wavelength, u_micron)
        constant == To(cst_c, micron_second)
    IN  IF input_converted = UnitConversionError THEN UnitConversionError
        ELSE IF wlen_converted = UnitConversionError THEN UnitConversionError
        ELSE To(Quantity(MagDiv(MagMul(constant.v, input_converted.v),
                                MagSq(wlen_converted.v)),
                         W_m2_micron),
                output_units)

\* flambda2fnu converting the wavelength to metres instead of micron.
flambda2fnu_wavelength_in_m(input_flux, input_wavelength, output_units) ==
    LET input_converted == To(input_flux, W_m2_micron)
        wlen_converted == To(input_wavelength, u_m)
        constant == To(cst_c, micron_second)
    IN  IF input_converted = UnitConversionError THEN UnitConversionError
        ELSE IF wlen_converted = UnitConversionError THEN UnitConversionError
        ELSE To(Quantity(MagDiv(MagMul(input_converted.v, MagSq(wlen_converted.v)),
                                constant.v),
                         W_m2_Hz),
                output_units)

flambda2fnu(input_flux, input_wavelength, output_units) ==
    LET input_converted == To(input_flux, W_m2_micron)
        wlen_converted == To(input_wavelength, u_micron)
        constant == To(cst_c, micron_second)
    IN  IF input_converted = UnitConversionError THEN UnitConversionError
        ELSE IF wlen_converted = UnitConversionError THEN UnitConversionError
        ELSE To(Quantity(MagDiv(MagMul(input_converted.v, MagSq(wlen_converted.v)),
                                constant.v),
                         W_m2_Hz),
                output_units)

wavelength2frequency(input_wavelength, output_units) ==
    IF To(input_wavelength, u_m) = UnitConversionError THEN UnitConversionError
    ELSE To(QDiv(cst_c, input_wavelength), output_units)

frequency2wavelength(input_frequency, output_units) ==
    IF To(input_frequency, u_m) = UnitConversionError THEN UnitConversionError
    ELSE To(QDiv(cst_c, input_frequency), output_units)

\* ------------------------------------------------------------------------
\* The fixed-constant converters (STScI direct conversion functions).
\* ------------------------------------------------------------------------
watt_metersquared2erg_cmsquared_second(input_flux) ==
    NumMul(Mag(1000, 0), input_flux)

erg_cmsquared_second2watt_metersquared(input_flux) ==
    DivNum(input_flux, Mag(1000, 0))

watt_metersquared_hertz2erg_cmsquared_second_hertz(input_flux) ==
    NumMul(Mag(1000, 0), input_flux)

erg_cmsquared_secondhertz2watt_metersquaredhertz(input_flux) ==
    DivNum(input_flux, Mag(1000, 0))

watt_metersquared_hertz2erg_cmsquared_second_angstrom(input_flux, input_wavelength) ==
    LET constant == Mag(299792458, 13)
    IN  QDiv(NumMul(constant, input_flux), QSq(input_wavelength))

erg_cmsquared_second_angstrom2watt_metersquared_hertz(input_flux, input_wavelength) ==
    LET constant == Mag(299792458, 13)
    IN  DivNum(QMul(input_flux, QSq(input_wavelength)), constant)

\* watt_metersquared_hertz2watt_metersquared_micron with the speed of light
\* in m/s as its constant.
watt_metersquared_hertz2watt_metersquared_micron_c_in_m(input_flux, input_wavelength) ==
    LET constant == Mag(299792458, 0)
    IN  QDiv(NumMul(constant, input_flux), QSq(input_wavelength))

watt_metersquared_hertz2watt_metersquared_micron(input_flux, input_wavelength) ==
    LET constant == Mag(299792458, 6)
    IN  QDiv(NumMul(constant, input_flux), QSq(input_wavelength))

watt_metersquared_micron2watt_metersquared_hertz(input_flux, input_wavelength) ==
    LET constant == Mag(299792458, 6)
    IN  DivNum(QMul(input_flux, QSq(input_wavelength)), constant)

erg_cmsquared_hertz2photon_cmsquared_second_micron(input_flux, input_wavelength) ==
    LET constant == Mag(150918896, 14)
    IN  QDiv(NumMul(constant, input_flux), input_wavelength)

photon_cmsquared_second_micron2erg_cmsquared_hertz(input_flux, input_wavelength) ==
    LET constant == Mag(150918896, 14)
    IN  DivNum(QMul(input_flux, input_wavelength), constant)

watt_metersquared_micron2photon_cmsquared_second_micron(input_flux, input_wavelength) ==
    LET constant == Mag(503411250, 6)
    IN  QMul(NumMul(constant, input_flux), input_wavelength)

photon_cmsquared_second_micron2watt_metersquared_micron(input_flux, input_wavelength) ==
    LET constant == Mag(503411250, 6)
    IN  DivNum(QDiv(input_flux, input_wavelength), constant)

erg_cmsquared_second_angstrom2photon_cmsquared_second_angstrom(input_flux, input_wavelength) ==
    LET constant == Mag(503411250, -1)
    IN  QMul(NumMul(constant, input_flux), input_wavelength)

photon_cmsquared_second_angstrom2erg_cmsquared_second_angstrom(input_flux, input_wavelength) ==
    LET constant == Mag(503411250, -1)
    IN  DivNum(QDiv(input_flux, input_wavelength), constant)

\* watt_metersquared_hertz2jansky with the constant of erg/cm^2/s/Hz -> Jy.
watt_metersquared_hertz2jansky_1e23(input_flux) ==
    LET constant == Mag(1, 23)
    IN  NumMul(constant, input_flux)

watt_metersquared_hertz2jansky(input_flux) ==
    LET constant == Mag(1, 26)
    IN  NumMul(constant, input_flux)

jansky2watt_metersquared_hertz(input_flux) ==
    LET constant == Mag(1, 26)
    IN  DivNum(input_flux, constant)

erg_cmsquared_second_hertz2jansky(input_flux) ==
    LET constant == Mag(1, 23)
    IN  NumMul(constant, input_flux)

jansky2erg_cmsquared_second_hertz(input_flux) ==
    LET constant == Mag(1, 23)
    IN  DivNum(input_flux, constant)

\* constant = 1e23/2.99792458e14
erg_cmsquared_second_angstrom2jansky(input_flux, input_wavelength) ==
    LET constant == MagDiv(Mag(1, 23), Mag(299792458, 6))
    IN  QMul(NumMul(constant, input_flux), QSq(input_wavelength))

\* constant = 3.33564095e4
jansky2erg_cmsquared_second_angstrom(input_flux, input_wavelength) ==
    LET constant == Mag(333564095, -4)
    IN  DivNum(QDiv(input_flux, QSq(input_wavelength)), constant)

\* watt_metersquared_micron2jansky by the direct constant of the lines the
\* source comments out: constant = 3.33564095e3,
\* return constant * input_flux * input_wavelength**2.
watt_metersquared_micron2jansky_direct(input_flux, input_wavelength) ==
    LET constant == Mag(333564095, -5)
    IN  QMul(NumMul(constant, input_flux), QSq(input_wavelength))

watt_metersquared_micron2jansky(input_flux, input_wavelength) ==
    LET fnu == watt_metersquared_micron2watt_metersquared_hertz(input_flux, input_wavelength)
    IN  watt_metersquared_hertz2jansky(fnu)

jansky2watt_metersquared_micron(input_flux, input_wavelength) ==
    LET fnu == jansky2watt_metersquared_hertz(input_flux)
    IN  watt_metersquared_hertz2watt_metersquared_micron(fnu, input_wavelength)

jansky2photon_cmsquared_second_angstrom(input_flux, input_wavelength) ==
    LET constant == Mag(150918896, -5)
    IN  QDiv(NumMul(constant, input_flux), input_wavelength)

photon_cmsquared_second_angstrom2jansky(input_flux, input_wavelength) ==
    LET constant == Mag(150918896, -5)
    IN  DivNum(QMul(input_flux, input_wavelength), constant)

rayleigh2photon_cmsquared_second_angstrom_steradian(input_flux) ==
    LET constant == Mag(79577539, -3)
    IN  NumMul(constant, input_flux)

photon_cmsquared_second_angstrom_steradian2rayleigh(input_flux) ==
    LET constant == Mag(79577539, -3)
    IN  DivNum(input_flux, constant)

rayleigh2photon_cmsquared_second_angstrom_degreesquared(input_flux) ==
    LET constant == Mag(24240705, -6)
    IN  NumMul(constant, input_flux)

photon_cmsquared_second_angstrom_degreesquared2rayleigh(input_flux) ==
    LET constant == Mag(24240705, -6)
    IN  DivNum(input_flux, constant)

rayleigh2photon_cmsquared_second_angstrom_arcsecondsquared(input_flux) ==
    LET constant == Mag(18704247, -13)
    IN  NumMul(constant, input_flux)

\* return constant / input_flux
photon_cmsquared_second_angstrom_arcsecondsquared2rayleigh(input_flux) ==
    LET constant == Mag(18704247, -13)
    IN  NumDiv(constant, input_flux)

\* ------------------------------------------------------------------------
\* What the documentation tabulates for the fixed-constant converters.
\* ------------------------------------------------------------------------
\* The inverse converter of each forward converter.
Inverse ==
    [watt_metersquared2erg_cmsquared_second |->
        "erg_cmsquared_second2watt_metersquared",
     watt_metersquared_hertz2erg_cmsquared_second_hertz |->
        "erg_cmsquared_secondhertz2watt_metersquaredhertz",
     watt_metersquared_hertz2erg_cmsquared_second_angstrom |->
        "erg_cmsquared_second_angstrom2watt_metersquared_hertz",
     watt_metersquared_hertz2watt_metersquared_micron |->
        "watt_metersquared_micron2watt_metersquared_hertz",
     erg_cmsquared_hertz2photon_cmsquared_second_micron |->
        "photon_cmsquared_second_micron2erg_cmsquared_hertz",
     watt_metersquared_micron2photon_cmsquared_second_micron |->
        "photon_cmsquared_second_micron2watt_metersquared_micron",
     erg_cmsquared_second_angstrom2photon_cmsquared_second_angstrom |->
        "photon_cmsquared_second_angstrom2erg_cmsquared_second_angstrom",
     watt_metersquared_hertz2jansky |->
        "jansky2watt_metersquared_hertz",
     erg_cmsquared_second_hertz2jansky |->
        "jansky2erg_cmsquared_second_hertz",
     erg_cmsquared_second_angstrom2jansky |->
        "jansky2erg_cmsquared_second_angstrom",
     watt_metersquared_micron2jansky |->
        "jansky2watt_metersquared_micron",
     jansky2photon_cmsquared_second_angstrom |->
        "photon_cmsquared_second_angstrom2jansky",
     rayleigh2photon_cmsquared_second_angstrom_steradian |->
        "photon_cmsquared_second_angstrom_steradian2rayleigh",
     rayleigh2photon_cmsquared_second_angstrom_degreesquared |->
        "photon_cmsquared_second_angstrom_degreesquared2rayleigh",
     rayleigh2photon_cmsquared_second_angstrom_arcsecondsquared |->
        "photon_cmsquared_second_angstrom_arcsecondsquared2rayleigh"]

\* The tabulated constant of each pair that takes no wavelength, by the
\* forward and by the inverse converter of the pair.
ForwardConstant ==
    [watt_metersquared2erg_cmsquared_second |-> Mag(1, 3),
     watt_metersquared_hertz2erg_cmsquared_second_hertz |-> Mag(1, 3),
     watt_metersquared_hertz2jansky |-> Mag(1, 26),
     erg_cmsquared_second_hertz2jansky |-> Mag(1, 23),
     rayleigh2photon_cmsquared_second_angstrom_steradian |-> Mag(79577539, -3),
     rayleigh2photon_cmsquared_second_angstrom_degreesquared |-> Mag(24240705, -6),
     rayleigh2photon_cmsquared_second_angstrom_arcsecondsquared |-> Mag(18704247, -13)]

InverseConstant ==
    [erg_cmsquared_second2watt_metersquared |-> Mag(1, 3),
     erg_cmsquared_secondhertz2watt_metersquaredhertz |-> Mag(1, 3),
     jansky2watt_metersquared_hertz |-> Mag(1, 26),
     jansky2erg_cmsquared_second_hertz |-> Mag(1, 23),
     photon_cmsquared_second_angstrom_steradian2rayleigh |-> Mag(79577539, -3),
     photon_cmsquared_second_angstrom_degreesquared2rayleigh |-> Mag(24240705, -6),
     photon_cmsquared_second_angstrom_arcsecondsquared2rayleigh |-> Mag(18704247, -13)]

\* The units each docstring documents, by name: <<input flux, input
\* wavelength, returned flux>>, "" where the converter takes no wavelength.
Documented ==
    [watt_metersquared2erg_cmsquared_second |->
        <<"W/m^2", "", "erg/cm^2/s">>,
     erg_cmsquared_second2watt_metersquared |->
        <<"erg/cm^2/s", "", "W/m^2">>,
     watt_metersquared_hertz2erg_cmsquared_second_hertz |->
        <<"W/m^2/Hz", "", "erg/cm^2/s/Hz">>,
     erg_cmsquared_secondhertz2watt_metersquaredhertz |->
        <<"erg/cm^2/s/Hz", "", "W/m^2/Hz">>,
     watt_metersquared_hertz2erg_cmsquared_second_angstrom |->
        <<"W/m^2/Hz", "Angstrom", "erg/cm^2/s/A">>,
     erg_cmsquared_second_angstrom2watt_metersquared_hertz |->
        <<"erg/cm^2/s/A", "Angstrom", "W/m^2/Hz">>,
     watt_metersquared_hertz2watt_metersquared_micron |->
        <<"W/m^2/Hz", "um", "W/m^2/um">>,
     watt_metersquared_micron2watt_metersquared_hertz |->
        <<"W/m^2/um", "um", "W/m^2/Hz">>,
     erg_cmsquared_hertz2photon_cmsquared_second_micron |->
        <<"erg/cm^2/Hz", "um", "photon/cm^2/s/um">>,
     photon_cmsquared_second_micron2erg_cmsquared_hertz |->
        <<"photon/cm^2/s/um", "um", "erg/cm^2/Hz">>,
     watt_metersquared_micron2photon_cmsquared_second_micron |->
        <<"W/m^2/um", "um", "photon/cm^2/s/um">>,
     photon_cmsquared_second_micron2watt_metersquared_micron |->
        <<"photon/cm^2/s/um", "um", "W/m^2/um">>,
     erg_cmsquared_second_angstrom2photon_cmsquared_second_angstrom |->
        <<"erg/cm^2/s/A", "Angstrom", "photon/cm^2/s/A">>,
     photon_cmsquared_second_angstrom2erg_cmsquared_second_angstrom |->
        <<"photon/cm^2/s/A", "Angstrom", "erg/cm^2/s/A">>,
     watt_metersquared_hertz2jansky |->
        <<"W/m^2/Hz", "", "Jy">>,
     jansky2watt_metersquared_hertz |->
        <<"Jy", "", "W/m^2/Hz">>,
     erg_cmsquared_second_hertz2jansky |->
        <<"erg/cm^2/s/Hz", "", "Jy">>,
     jansky2erg_cmsquared_second_hertz |->
        <<"Jy", "", "erg/cm^2/s/Hz">>,
     erg_cmsquared_second_angstrom2jansky |->
        <<"erg/cm^2/s/A", "Angstrom", "Jy">>,
     jansky2erg_cmsquared_second_angstrom |->
        <<"Jy", "Angstrom", "erg/cm^2/s/A">>,
     watt_metersquared_micron2jansky |->
        <<"W/m^2/um", "um", "Jy">>,
     jansky2watt_metersquared_micron |->
        <<"Jy", "um", "W/m^2/um">>,
     jansky2photon_cmsquared_second_angstrom |->
        <<"Jy", "Angstrom", "photon/cm^2/s/A">>,
     photon_cmsquared_second_angstrom2jansky |->
        <<"photon/cm^2/s/A", "Angstrom", "Jy">>,
     rayleigh2photon_cmsquared_second_angstrom_steradian |->
        <<"Rayleigh", "", "photon/cm^2/s/A/sr">>,
     photon_cmsquared_second_angstrom_steradian2rayleigh |->
        <<"photon/cm^2/s/A/sr", "", "Rayleigh">>,
     rayleigh2photon_cmsquared_second_angstrom_degreesquared |->
        <<"Rayleigh", "", "photon/cm^2/s/A/deg^2">>,
     photon_cmsquared_second_angstrom_degreesquared2rayleigh |->
        <<"photon/cm^2/s/A/deg^2", "", "Rayleigh">>,
     rayleigh2photon_cmsquared_second_angstrom_arcsecondsquared |->
        <<"Rayleigh", "", "photon/cm^2/s/A/arcsec^2">>,
     photon_cmsquared_second_angstrom_arcsecondsquared2rayleigh |->
        <<"photon/cm^2/s/A/arcsec^2", "", "Rayleigh">>]

\* The units the docstrings and the callers name.
UnitNamed(nm) ==
    CASE nm = "W/m^2" -> W_m2
      [] nm = "erg/cm^2/s" -> erg_cm2_s
      [] nm = "W/m^2/Hz" -> W_m2_Hz
      [] nm = "erg/cm^2/s/Hz" -> erg_cm2_s_Hz
      [] nm = "erg/cm^2/Hz" -> erg_cm2_Hz
      [] nm = "Jy" -> u_Jy
      [] nm = "W/m^2/um" -> W_m2_micron
      [] nm = "erg/cm^2/s/A" -> erg_cm2_s_AA
      [] nm = "photon/cm^2/s/um" -> ph_cm2_s_micron
      [] nm = "photon/cm^2/s/A" -> ph_cm2_s_AA
      [] nm = "photon/cm^2/s/A/sr" -> ph_cm2_s_AA_sr
      [] nm = "photon/cm^2/s/A/deg^2" -> ph_cm2_s_AA_deg2
      [] nm = "photon/cm^2/s/A/arcsec^2" -> ph_cm2_s_AA_arcsec2
      [] nm = "Rayleigh" -> u_R
      [] nm = "Hz" -> u_Hz
      [] nm = "s" -> u_second
      [] nm = "m" -> u_m
      [] nm = "um" -> u_micron
      [] nm = "nm" -> u_nm
      [] nm = "Angstrom" -> u_AA
      [] nm = "1.0" -> dimensionless_unscaled

\* The units, by name, a caller who follows the docstrings passes to each
\* generic converter as its first argument.
GenericInput ==
    [fnu2flambda |-> {"W/m^2/Hz", "erg/cm^2/s/Hz", "Jy"},
     flambda2fnu |-> {"W/m^2/um", "erg/cm^2/s/A"},
     wavelength2frequency |-> {"m", "um", "nm", "Angstrom"},
     frequency2wavelength |-> {"Hz"}]

\* The unit, by name, that converter fn, called with output_units un, is
\* documented to return, and the wavelength unit it is documented to take.
DocumentedOutput(fn, un) ==
    IF fn \in DOMAIN GenericInput THEN un ELSE Documented[fn][3]

DocumentedWavelength(fn) ==
    IF fn \in DOMAIN GenericInput THEN "" ELSE Documented[fn][2]

\* A caller may pass what fn1 returned on to fn2: fn1 is documented to
\* return what fn2 is documented to take, and the two do not document
\* different units for the wavelength they share.
Follows(fn1, un1, fn2) ==
    /\ IF fn2 \in DOMAIN GenericInput
       THEN DocumentedOutput(fn1, un1) \in GenericInput[fn2]
       ELSE DocumentedOutput(fn1, un1) = Documented[fn2][1]
    /\ IF DocumentedWavelength(fn1) = "" THEN TRUE
       ELSE IF DocumentedWavelength(fn2) = "" THEN TRUE
       ELSE DocumentedWavelength(fn1) = DocumentedWavelength(fn2)

\* ------------------------------------------------------------------------
\* The caller: a call of any converter on arguments drawn at Init, and
\* then a call of a converter that is documented to take what the first
\* returned, on that result and the same wavelength.
\* ------------------------------------------------------------------------
MaxFlux == 2
MaxWavelength == 2

FluxUnits ==
    {"W/m^2/Hz", "erg/cm^2/s/Hz", "Jy", "W/m^2/um", "erg/cm^2/s/A", "W/m^2",
     "Rayleigh", "Hz", "um", "s", "1.0"}

WavelengthUnits == {"um", "Angstrom", "nm", "s"}

OutputUnits ==
    {"W/m^2/um", "erg/cm^2/s/A", "W/m^2/Hz", "erg/cm^2/s/Hz", "Jy", "Hz", "um"}

\* 1.0, 2.0, ... and 1.0e26
FluxMagnitudes == {Mag(k, 0) : k \in 1..MaxFlux} \cup {Mag(1, 26)}

WavelengthMagnitudes == {Mag(k, 0) : k \in 1..MaxWavelength}

VARIABLES
    quantity,      \* the caller's first argument: a flux (a wavelength or a
                   \* frequency for wavelength2frequency / frequency2wavelength)
    wavelength,    \* the caller's input_wavelength, for the converters that take one
    first,         \* the first call, once a second one was made: the converter,
                   \* its output_units and what it returned
    called,        \* the converter called last, "none" before any call
    unit_arg,      \* the output_units of the last call, by name ("" for a
                   \* fixed-constant converter)
    arg,           \* the first argument of the last call
    output         \* what the last call returned, or UnitConversionError

vars == <<quantity, wavelength, first, called, unit_arg, arg, output>>

Init ==
    /\ quantity \in {Quantity(x, UnitNamed(un)) : x \in FluxMagnitudes, un \in FluxUnits}
    /\ wavelength \in
          {Quantity(x, UnitNamed(un)) : x \in WavelengthMagnitudes, un \in WavelengthUnits}
    /\ first = NoValue
    /\ called = "none"
    /\ unit_arg = ""
    /\ arg = NoValue
    /\ output = NoValue

\* The first argument of the next call: the caller's quantity, or what the
\* first call returned.
Argument == IF called = "none" THEN quantity ELSE output

MayCall(fn) ==
    IF called = "none" THEN TRUE
    ELSE /\ first = NoValue
         /\ output # UnitConversionError
         /\ Follows(called, unit_arg, fn)

Returns(fn, un, value) ==
    /\ MayCall(fn)
    /\ first' = IF called = "none" THEN NoValue
                ELSE [called |-> called, unit_arg |-> unit_arg, output |-> output]
    /\ called' = fn
    /\ unit_arg' = un
    /\ arg' = Argument
    /\ output' = value
    /\ UNCHANGED <<quantity, wavelength>>

Call_fnu2flambda ==
    \E un \in OutputUnits :
        Returns("fnu2flambda", un, fnu2flambda(Argument, wavelength, UnitNamed(un)))

Call_flambda2fnu ==
    \E un \in OutputUnits :
        Returns("flambda2fnu", un, flambda2fnu(Argument, wavelength, UnitNamed(un)))

Call_wavelength2frequency ==
    \E un \in OutputUnits :
        Returns("wavelength2frequency", un, wavelength2frequency(Argument, UnitNamed(un)))

Call_frequency2wavelength ==
    \E un \in OutputUnits :
        Returns("frequency2wavelength", un, frequency2wavelength(Argument, UnitNamed(un)))

Call_watt_metersquared2erg_cmsquared_second ==
    Returns("watt_metersquared2erg_cmsquared_second", "",
            watt_metersquared2erg_cmsquared_second(Argument))

Call_erg_cmsquared_second2watt_metersquared ==
    Returns("erg_cmsquared_second2watt_metersquared", "",
            erg_cmsquared_second2watt_metersquared(Argument))

Call_watt_metersquared_hertz2erg_cmsquared_second_hertz ==
    Returns("watt_metersquared_hertz2erg_cmsquared_second_hertz", "",
            watt_metersquared_hertz2erg_cmsquared_second_hertz(Argument))

Call_erg_cmsquared_secondhertz2watt_metersquaredhertz ==
    Returns("erg_cmsquared_secondhertz2watt_metersquaredhertz", "",
            erg_cmsquared_secondhertz2watt_metersquaredhertz(Argument))

Call_watt_metersquared_hertz2erg_cmsquared_second_angstrom ==
    Returns("watt_metersquared_hertz2erg_cmsquared_second_angstrom", "",
            watt_metersquared_hertz2erg_cmsquared_second_angstrom(Argument, wavelength))

Call_erg_cmsquared_second_angstrom2watt_metersquared_hertz ==
    Returns("erg_cmsquared_second_angstrom2watt_metersquared_hertz", "",
            erg_cmsquared_second_angstrom2watt_metersquared_hertz(Argument, wavelength))

Call_watt_metersquared_hertz2watt_metersquared_micron ==
    Returns("watt_metersquared_hertz2watt_metersquared_micron", "",
            watt_metersquared_hertz2watt_metersquared_micron(Argument, wavelength))

Call_watt_metersquared_micron2watt_metersquared_hertz ==
    Returns("watt_metersquared_micron2watt_metersquared_hertz", "",
            watt_metersquared_micron2watt_metersquared_hertz(Argument, wavelength))

Call_erg_cmsquared_hertz2photon_cmsquared_second_micron ==
    Returns("erg_cmsquared_hertz2photon_cmsquared_second_micron", "",
            erg_cmsquared_hertz2photon_cmsquared_second_micron(Argument, wavelength))

Call_photon_cmsquared_second_micron2erg_cmsquared_hertz ==
    Returns("photon_cmsquared_second_micron2erg_cmsquared_hertz", "",
            photon_cmsquared_second_micron2erg_cmsquared_hertz(Argument, wavelength))

Call_watt_metersquared_micron2photon_cmsquared_second_micron ==
    Returns("watt_metersquared_micron2photon_cmsquared_second_micron", "",
            watt_metersquared_micron2photon_cmsquared_second_micron(Argument, wavelength))

Call_photon_cmsquared_second_micron2watt_metersquared_micron ==
    Returns("photon_cmsquared_second_micron2watt_metersquared_micron", "",
            photon_cmsquared_second_micron2watt_metersquared_micron(Argument, wavelength))

Call_erg_cmsquared_second_angstrom2photon_cmsquared_second_angstrom ==
    Returns("erg_cmsquared_second_angstrom2photon_cmsquared_second_angstrom", "",
            erg_cmsquared_second_angstrom2photon_cmsquared_second_angstrom(Argument, wavelength))

Call_photon_cmsquared_second_angstrom2erg_cmsquared_second_angstrom ==
    Returns("photon_cmsquared_second_angstrom2erg_cmsquared_second_angstrom", "",
            photon_cmsquared_second_angstrom2erg_cmsquared_second_angstrom(Argument, wavelength))

Call_watt_metersquared_hertz2jansky ==
    Returns("watt_metersquared_hertz2jansky", "",
            watt_metersquared_hertz2jansky(Argument))

Call_jansky2watt_metersquared_hertz ==
    Returns("jansky2watt_metersquared_hertz", "",
            jansky2watt_metersquared_hertz(Argument))

Call_erg_cmsquared_second_hertz2jansky ==
    Returns("erg_cmsquared_second_hertz2jansky", "",
            erg_cmsquared_second_hertz2jansky(Argument))

Call_jansky2erg_cmsquared_second_hertz ==
    Returns("jansky2erg_cmsquared_second_hertz", "",
            jansky2erg_cmsquared_second_hertz(Argument))

Call_erg_cmsquared_second_angstrom2jansky ==
    Returns("erg_cmsquared_second_angstrom2jansky", "",
            erg_cmsquared_second_angstrom2jansky(Argument, wavelength))

Call_jansky2erg_cmsquared_second_angstrom ==
    Returns("jansky2erg_cmsquared_second_angstrom", "",
            jansky2erg_cmsquared_second_angstrom(Argument, wavelength))

Call_watt_metersquared_micron2jansky ==
    Returns("watt_metersquared_micron2jansky", "",
            watt_metersquared_micron2jansky(Argument, wavelength))

Call_jansky2watt_metersquared_micron ==
    Returns("jansky2watt_metersquared_micron", "",
            jansky2watt_metersquared_micron(Argument, wavelength))

Call_jansky2photon_cmsquared_second_angstrom ==
    Returns("jansky2photon_cmsquared_second_angstrom", "",
            jansky2photon_cmsquared_second_angstrom(Argument, wavelength))

Call_photon_cmsquared_second_angstrom2jansky ==
    Returns("photon_cmsquared_second_angstrom2jansky", "",
            photon_cmsquared_second_angstrom2jansky(Argument, wavelength))

Call_rayleigh2photon_cmsquared_second_angstrom_steradian ==
    Returns("rayleigh2photon_cmsquared_second_angstrom_steradian", "",
            rayleigh2photon_cmsquared_second_angstrom_steradian(Argument))

Call_photon_cmsquared_second_angstrom_steradian2rayleigh ==
    Returns("photon_cmsquared_second_angstrom_steradian2rayleigh", "",
            photon_cmsquared_second_angstrom_steradian2rayleigh(Argument))

Call_rayleigh2photon_cmsquared_second_angstrom_degreesquared ==
    Returns("rayleigh2photon_cmsquared_second_angstrom_degreesquared", "",
            rayleigh2photon_cmsquared_second_angstrom_degreesquared(Argument))

Call_photon_cmsquared_second_angstrom_degreesquared2rayleigh ==
    Returns("photon_cmsquared_second_angstrom_degreesquared2rayleigh", "",
            photon_cmsquared_second_angstrom_degreesquared2rayleigh(Argument))

Call_rayleigh2photon_cmsquared_second_angstrom_arcsecondsquared ==
    Returns("rayleigh2photon_cmsquared_second_angstrom_arcsecondsquared", "",
            rayleigh2photon_cmsquared_second_angstrom_arcsecondsquared(Argument))

Call_photon_cmsquared_second_angstrom_arcsecondsquared2rayleigh ==
    Returns("photon_cmsquared_second_angstrom_arcsecondsquared2rayleigh", "",
            photon_cmsquared_second_angstrom_arcsecondsquared2rayleigh(Argument))

Next ==
    \/ Call_fnu2flambda
    \/ Call_flambda2fnu
    \/ Call_wavelength2frequency
    \/ Call_frequency2wavelength
    \/ Call_watt_metersquared2erg_cmsquared_second
    \/ Call_erg_cmsquared_second2watt_metersquared
    \/ Call_watt_metersquared_hertz2erg_cmsquared_second_hertz
    \/ Call_erg_cmsquared_secondhertz2watt_metersquaredhertz
    \/ Call_watt_metersquared_hertz2erg_cmsquared_second_angstrom
    \/ Call_erg_cmsquared_second_angstrom2watt_metersquared_hertz
    \/ Call_watt_metersquared_hertz2watt_metersquared_micron
    \/ Call_watt_metersquared_micron2watt_metersquared_hertz
    \/ Call_erg_cmsquared_hertz2photon_cmsquared_second_micron
    \/ Call_photon_cmsquared_second_micron2erg_cmsquared_hertz
    \/ Call_watt_metersquared_micron2photon_cmsquared_second_micron
    \/ Call_photon_cmsquared_second_micron2watt_metersquared_micron
    \/ Call_erg_cmsquared_second_angstrom2photon_cmsquared_second_angstrom
    \/ Call_photon_cmsquared_second_angstrom2erg_cmsquared_second_angstrom
    \/ Call_watt_metersquared_hertz2jansky
    \/ Call_jansky2watt_metersquared_hertz
    \/ Call_erg_cmsquared_second_hertz2jansky
    \/ Call_jansky2erg_cmsquared_second_hertz
    \/ Call_erg_cmsquared_second_angstrom2jansky
    \/ Call_jansky2erg_cmsquared_second_angstrom
    \/ Call_watt_metersquared_micron2jansky
    \/ Call_jansky2watt_metersquared_micron
    \/ Call_jansky2photon_cmsquared_second_angstrom
    \/ Call_photon_cmsquared_second_angstrom2jansky
    \/ Call_rayleigh2photon_cmsquared_second_angstrom_steradian
    \/ Call_photon_cmsquared_second_angstrom_steradian2rayleigh
    \/ Call_rayleigh2photon_cmsquared_second_angstrom_degreesquared
    \/ Call_photon_cmsquared_second_angstrom_degreesquared2rayleigh
    \/ Call_rayleigh2photon_cmsquared_second_angstrom_arcsecondsquared
    \/ Call_photon_cmsquared_second_angstrom_arcsecondsquared2rayleigh

Spec == Init /\ [][Next]_vars

\* ------------------------------------------------------------------------
\* Properties.
\* ------------------------------------------------------------------------
\* Two quantities in the same unit whose magnitudes differ by a relative
\* error below 1e-9.
QClose(a, b) == UnitEq(a.u, b.u) /\ MagClose(a.v, b.v)

\* The last call was of the inverse of the forward converter called first.
RoundTripMade ==
    /\ first # NoValue
    /\ first.called \in DOMAIN Inverse
    /\ called = Inverse[first.called]

\* The last call was made with the documented input units.
DocumentedInputs ==
    /\ called \in DOMAIN Documented
    /\ UnitEq(arg.u, UnitNamed(Documented[called][1]))
    /\ Documented[called][2] # "" => UnitEq(wavelength.u, UnitNamed(Documented[called][2]))

\* C1: round-trip identity.  For every forward/inverse pair of
\* fixed-constant converters, the inverse applied to what the forward
\* converter returned (with the same wavelength) gives back the input flux
\* within a relative error of 1e-9.
C1_RoundTrip ==
    RoundTripMade => QClose(output, quantity)

\* C1, restricted to the pairs other than erg/cm^2/s/A <-> Jy and
\* Rayleigh <-> photon/cm^2/s/A/arcsec^2: the round trip holds for them.
C1_RoundTripOtherPairs ==
    /\ RoundTripMade
    /\ first.called # "erg_cmsquared_second_angstrom2jansky"
    /\ first.called # "rayleigh2photon_cmsquared_second_angstrom_arcsecondsquared"
    => QClose(output, quantity)

\* C2: every inverse converter that takes no wavelength returns its input
\* divided by the constant its forward converter multiplies by.
C2_InverseDivides ==
    called \in DOMAIN InverseConstant =>
        /\ UnitEq(output.u, arg.u)
        /\ MagEq(output.v, MagDiv(arg.v, InverseConstant[called]))

\* C3: erg_cmsquared_second_angstrom2jansky(A, L) returns
\* 3.33564095e4 * A * L^2 (relative error below 1e-9), and
\* jansky2erg_cmsquared_second_angstrom(B, L) returns B / L^2 / 3.33564095e4.
C3_JanskyConstant ==
    /\ called = "erg_cmsquared_second_angstrom2jansky" =>
          MagClose(output.v,
                   MagMul(MagMul(Mag(333564095, -4), arg.v), MagSq(wavelength.v)))
    /\ called = "jansky2erg_cmsquared_second_angstrom" =>
          MagClose(output.v,
                   MagDiv(MagDiv(arg.v, MagSq(wavelength.v)), Mag(333564095, -4)))

\* The second half of C3 alone, which the code satisfies.
C3_JanskyInverseConstant ==
    called = "jansky2erg_cmsquared_second_angstrom" =>
        MagEq(output.v, MagDiv(MagDiv(arg.v, MagSq(wavelength.v)), Mag(333564095, -4)))

\* C4: frequency2wavelength called with a frequency and a length output
\* unit succeeds and returns speed_of_light / frequency in that unit.
C4_FrequencyToWavelength ==
    /\ called = "frequency2wavelength"
    /\ Commensurate(arg.u, u_Hz)
    /\ Commensurate(UnitNamed(unit_arg), u_m)
    => /\ output # UnitConversionError
       /\ output = To(QDiv(cst_c, arg), UnitNamed(unit_arg))

\* C5: a fixed-constant converter called with its documented input units
\* returns a quantity in its documented output unit.
C5_DocumentedOutputUnit ==
    DocumentedInputs => UnitEq(output.u, UnitNamed(Documented[called][3]))

\* C6: a generic converter called with a wavelength in a time unit fails
\* with a dimension-mismatch error; fnu2flambda and flambda2fnu also fail
\* when the flux or the output unit is not commensurate with the dimension
\* the converter expects.
C6_DimensionMismatch ==
    /\ called \in {"fnu2flambda", "flambda2fnu"} /\ Commensurate(wavelength.u, u_second)
          => output = UnitConversionError
    /\ called \in {"wavelength2frequency", "frequency2wavelength"}
          /\ Commensurate(arg.u, u_second)
          => output = UnitConversionError
    /\ called = "fnu2flambda"
          /\ (~Commensurate(arg.u, W_m2_Hz)
                \/ ~Commensurate(UnitNamed(unit_arg), W_m2_micron))
          => output = UnitConversionError
    /\ called = "flambda2fnu"
          /\ (~Commensurate(arg.u, W_m2_micron)
                \/ ~Commensurate(UnitNamed(unit_arg), W_m2_Hz))
          => output = UnitConversionError

\* fnu2flambda was called with a commensurate flux and output unit and a
\* wavelength in seconds, and raised.
C6_Witness ==
    /\ called = "fnu2flambda"
    /\ wavelength.u = u_second
    /\ Commensurate(arg.u, W_m2_Hz)
    /\ unit_arg = "W/m^2/um"
    /\ output = UnitConversionError

\* C7: composed-function equivalence.  jansky2watt_metersquared_micron
\* returns exactly what jansky2watt_metersquared_hertz followed by
\* watt_metersquared_hertz2watt_metersquared_micron returns, and
\* watt_metersquared_micron2jansky exactly what
\* watt_metersquared_micron2watt_metersquared_hertz followed by
\* watt_metersquared_hertz2jansky returns.
C7_ComposedEquivalence ==
    /\ called = "jansky2watt_metersquared_micron" =>
          output = watt_metersquared_hertz2watt_metersquared_micron(
                       jansky2watt_metersquared_hertz(arg), wavelength)
    /\ called = "watt_metersquared_micron2jansky" =>
          output = watt_metersquared_hertz2jansky(
                       watt_metersquared_micron2watt_metersquared_hertz(arg, wavelength))

\* watt_metersquared_micron2jansky was called on 2 W/m^2/um at 2 um and
\* returned 2 * 2^2 / 2.99792458e14 * 1e26 with the unit W/m^2/um * um^2.
C7_Witness ==
    /\ called = "watt_metersquared_micron2jansky"
    /\ arg = Quantity(Mag(2, 0), W_m2_micron)
    /\ wavelength = Quantity(Mag(2, 0), u_micron)
    /\ MagEq(output.v, MagDiv(Mag(8, 26), Mag(299792458, 6)))
    /\ UnitEq(output.u, UnitMul(W_m2_micron, UnitSq(u_micron)))

\* fnu2flambda was called first, on an f_nu flux, a wavelength that is a
\* length and an output unit commensurate with W/m^2/um.
FnuToFlambdaMade(fn, q, un) ==
    /\ fn = "fnu2flambda"
    /\ Commensurate(q.u, W_m2_Hz)
    /\ Commensurate(wavelength.u, u_m)
    /\ Commensurate(UnitNamed(un), W_m2_micron)

\* C8: dimensional consistency.  For an f_nu flux x in a unit commensurate
\* with W/m^2/Hz, a wavelength L in a length unit and an output unit U
\* commensurate with W/m^2/um, fnu2flambda(x, L, U) returns, and
\* flambda2fnu of what it returned, L and the unit of x returns x within a
\* relative error of 1e-9.
C8_GenericRoundTrip ==
    /\ first = NoValue /\ FnuToFlambdaMade(called, arg, unit_arg) =>
          output # UnitConversionError
    /\ /\ first # NoValue
       /\ FnuToFlambdaMade(first.called, quantity, first.unit_arg)
       /\ called = "flambda2fnu"
       /\ UnitNamed(unit_arg) = quantity.u
       => /\ output # UnitConversionError
          /\ QClose(output, quantity)

\* fnu2flambda was called on a flux in erg/s/cm^2/Hz at a wavelength in
\* nanometres for an output in W/m^2/um, and flambda2fnu on what it
\* returned for an output in erg/s/cm^2/Hz, and returned.
C8_Witness ==
    /\ first # NoValue
    /\ first.called = "fnu2flambda"
    /\ first.unit_arg = "W/m^2/um"
    /\ quantity.u = erg_cm2_s_Hz
    /\ wavelength.u = u_nm
    /\ called = "flambda2fnu"
    /\ unit_arg = "erg/cm^2/s/Hz"
    /\ arg = first.output
    /\ output # UnitConversionError
    /\ output.u = erg_cm2_s_Hz

C10_KnownValues ==
    /\ called \in DOMAIN ForwardConstant =>
          MagEq(output.v, MagMul(ForwardConstant[called], arg.v))
    /\ called = "watt_metersquared2erg_cmsquared_second" /\ arg.v = Mag(1, 0) =>
          MagEq(output.v, Mag(1000, 0))
    /\ called = "watt_metersquared_hertz2jansky" /\ arg.v = Mag(1, 0) =>
          MagEq(output.v, Mag(1, 26))
    /\ called = "erg_cmsquared_second_hertz2jansky" /\ arg.v = Mag(1, 0) =>
          MagEq(output.v, Mag(1, 23))
    /\ called = "rayleigh2photon_cmsquared_second_angstrom_steradian" /\ arg.v = Mag(1, 0) =>
          MagEq(output.v, Mag(79577539, -3))
    /\ called = "jansky2watt_metersquared_hertz" /\ arg.v = Mag(1, 26) =>
          MagEq(output.v, Mag(1, 0))

\* watt_metersquared_hertz2jansky was called on the bare number 1.0 and
\* returned 1.0e26.
C10_Witness ==
    /\ called = "watt_metersquared_hertz2jansky"
    /\ arg = Quantity(Mag(1, 0), dimensionless_unscaled)
    /\ MagEq(output.v, Mag(1, 26))

====
